---------------------------- MODULE Spec2Model ----------------------------
(***************************************************************************)
(* A model of the problem-details crate: the ProblemDetails record, its    *)
(* constructors and builder operations, the Display formatter, the serde   *)
(* codecs (derive with flatten, status::opt, uri::opt) as they run under   *)
(* serde_json and under quick_xml, and the poem, actix and axum            *)
(* integrations that turn a value into a response.                         *)
(*                                                                         *)
(* Text is modelled as a sequence of one-character strings, so that        *)
(* parsing, formatting and concatenation are computed and not assumed.     *)
(* Option<T> is [some |-> FALSE] or [some |-> TRUE, v |-> x]; Result is    *)
(* [ok |-> TRUE, v |-> x] or [ok |-> FALSE, err |-> e].                    *)
(***************************************************************************)
EXTENDS Integers, Sequences, FiniteSets, TLC

---------------------------------------------------------------------------
(* Option, Result *)

None == [some |-> FALSE]

Some(x) == [some |-> TRUE, v |-> x]

Ok(x) == [ok |-> TRUE, v |-> x]

Err(e) == [ok |-> FALSE, err |-> e]

(* let x = e; body: the value is computed once and handed to the body. *)
Let(x, body(_)) == body(x)

(* r?: the error of r returned as it is, else the body on r's value *)
Try(r, body(_)) == IF r.ok THEN body(r.v) ELSE r

---------------------------------------------------------------------------
(* Text *)

LowerSeq == <<"a","b","c","d","e","f","g","h","i","j","k","l","m",
              "n","o","p","q","r","s","t","u","v","w","x","y","z">>

UpperSeq == <<"A","B","C","D","E","F","G","H","I","J","K","L","M",
              "N","O","P","Q","R","S","T","U","V","W","X","Y","Z">>

DigitSeq == <<"0","1","2","3","4","5","6","7","8","9">>

Range(s) == {s[i] : i \in DOMAIN s}

Letters == Range(LowerSeq) \cup Range(UpperSeq)

Digits == Range(DigitSeq)

(* u8::to_ascii_lowercase *)
to_ascii_lowercase(c) ==
    IF c \in Range(UpperSeq)
    THEN LowerSeq[CHOOSE i \in DOMAIN UpperSeq : UpperSeq[i] = c]
    ELSE c

(* [u8]::eq_ignore_ascii_case *)
eq_ignore_ascii_case(a, b) ==
    /\ Len(a) = Len(b)
    /\ \A i \in DOMAIN a : to_ascii_lowercase(a[i]) = to_ascii_lowercase(b[i])

(* The text as one string, for reading golden strings. *)
RECURSIVE Join(_)
Join(cs) == IF cs = <<>> THEN "" ELSE Head(cs) \o Join(Tail(cs))

(* Display of an unsigned integer: its decimal digits. *)
RECURSIVE fmt_u16(_)
fmt_u16(n) ==
    IF n < 10 THEN <<DigitSeq[n + 1]>>
    ELSE fmt_u16(n \div 10) \o <<DigitSeq[(n % 10) + 1]>>

(* The first index >= i of s holding a character of stop, or Len(s)+1. *)
RECURSIVE FindFrom(_, _, _)
FindFrom(s, i, stop) ==
    IF i > Len(s) THEN Len(s) + 1
    ELSE IF s[i] \in stop THEN i
    ELSE FindFrom(s, i + 1, stop)

Count(s, c) == Cardinality({i \in DOMAIN s : s[i] = c})

---------------------------------------------------------------------------
(* http::Uri, as http::Uri::from_str parses it and Display writes it.      *)
(* A Uri is [scheme, authority, data, query]: the scheme (None for a       *)
(* reference without "://"), the authority text (empty when there is       *)
(* none), the path text, and the query text.  Brackets, '@' and '%' of an  *)
(* authority are outside the model's alphabet.                             *)

(* SCHEME_CHARS: alphanumerics, '+', '-', '.' *)
SchemeChars == Letters \cup Digits \cup {"+", "-", "."}

(* URI_CHARS without the delimiters handled apart (quotes, parentheses and  *)
(* the asterisk are outside the model's alphabet).                         *)
AuthorityChars == Letters \cup Digits \cup
                  {"!", "$", "&", "+", ",", "-", ".", ";", "=", "_", "~", ":"}

(* Bytes PathAndQuery::from_shared accepts in a path. *)
PathChars == Letters \cup Digits \cup
             {"!", "$", "%", "&", "+", ",", "-", ".", "/", ":", ";", "=",
              "@", "[", "]", "^", "_", "|", "~", "{", "}"}

(* Bytes PathAndQuery::from_shared accepts in a query. *)
QueryChars == PathChars \cup {"?"}

(* Scheme2::parse: the length of the scheme when "://" follows it, else 0 *)
Scheme2_parse(s) ==
    IF Len(s) > 3
    THEN Let(FindFrom(s, 1, {c \in Range(s) : c \notin SchemeChars}),
             LAMBDA i :
                IF /\ i <= Len(s)
                   /\ s[i] = ":"
                   /\ Len(s) >= i + 2
                   /\ SubSeq(s, i + 1, i + 2) = <<"/", "/">>
                THEN i - 1
                ELSE 0)
    ELSE 0

(* Authority::parse: Ok(end) with end the length of the authority *)
Authority_parse(s) ==
    Let(SubSeq(s, 1, FindFrom(s, 1, {"/", "?", "#"}) - 1),
        LAMBDA auth :
            IF \E i \in DOMAIN auth : auth[i] \notin AuthorityChars
            THEN Err("InvalidUriChar")
            ELSE IF Count(auth, ":") > 1
            THEN Err("InvalidAuthority")
            ELSE Ok(Len(auth)))

(* PathAndQuery::from_shared: the fragment is cut off *)
PathAndQuery_from_shared(s) ==
    Let(FindFrom(s, 1, {"?", "#"}), LAMBDA pe :
    Let(SubSeq(s, 1, pe - 1), LAMBDA path :
    Let(IF pe <= Len(s) /\ s[pe] = "?"
        THEN Some(SubSeq(s, pe + 1, FindFrom(s, pe + 1, {"#"}) - 1))
        ELSE None, LAMBDA query :
        IF \/ \E i \in DOMAIN path : path[i] \notin PathChars
           \/ query.some /\ \E i \in DOMAIN query.v : query.v[i] \notin QueryChars
        THEN Err("InvalidUriChar")
        ELSE Ok([data |-> path, query |-> query]))))

MkUri(scheme, authority, pq) ==
    [scheme |-> scheme, authority |-> authority,
     data |-> pq.data, query |-> pq.query]

EmptyPathAndQuery == [data |-> <<>>, query |-> None]

(* Uri::parse_full *)
parse_full(s) ==
    Let(Scheme2_parse(s), LAMBDA n :
    Let(IF n = 0 THEN s ELSE SubSeq(s, n + 4, Len(s)), LAMBDA rest :
    Try(Authority_parse(rest), LAMBDA authority_end :
        IF n = 0
        THEN IF authority_end # Len(rest) THEN Err("InvalidFormat")
             ELSE Ok(MkUri(None, rest, EmptyPathAndQuery))
        ELSE IF authority_end = 0 THEN Err("InvalidFormat")
        ELSE Try(PathAndQuery_from_shared(
                     SubSeq(rest, authority_end + 1, Len(rest))),
                 LAMBDA pq : Ok(MkUri(Some(SubSeq(s, 1, n)),
                                      SubSeq(rest, 1, authority_end), pq))))))

(* Uri::from_shared, reached from str::parse and String::try_into *)
Uri_parse(s) ==
    IF Len(s) = 0 THEN Err("Empty")
    ELSE IF s = <<"/">> \/ s = <<"*">>
    THEN Ok(MkUri(None, <<>>, [data |-> s, query |-> None]))
    ELSE IF s[1] = "/"
    THEN Try(PathAndQuery_from_shared(s), LAMBDA pq : Ok(MkUri(None, <<>>, pq)))
    ELSE parse_full(s)

(* Uri::path *)
Uri_path(u) ==
    IF u.data # <<>> \/ u.query.some \/ u.scheme.some
    THEN IF u.data = <<>> THEN <<"/">> ELSE u.data
    ELSE <<>>

(* Uri_fmt with the query left out. *)
Uri_fmt_no_query(u) ==
    (IF u.scheme.some THEN u.scheme.v \o <<":", "/", "/">> ELSE <<>>)
    \o u.authority
    \o Uri_path(u)

(* impl Display for Uri *)
Uri_fmt(u) ==
    (IF u.scheme.some THEN u.scheme.v \o <<":", "/", "/">> ELSE <<>>)
    \o u.authority
    \o Uri_path(u)
    \o (IF u.query.some THEN <<"?">> \o u.query.v ELSE <<>>)

(* impl PartialEq for Uri: scheme and authority compare without case *)
Uri_eq(a, b) ==
    /\ a.scheme.some = b.scheme.some
    /\ a.scheme.some => eq_ignore_ascii_case(a.scheme.v, b.scheme.v)
    /\ eq_ignore_ascii_case(a.authority, b.authority)
    /\ Uri_path(a) = Uri_path(b)
    /\ a.query = b.query

---------------------------------------------------------------------------
(* http::StatusCode is a u16 in 100..=999 (StatusCode::from_u16).          *)

StatusCode_from_u16(n) ==
    IF n >= 100 /\ n < 1000 THEN Ok(n) ELSE Err("InvalidStatusCode")

(* StatusCode::canonical_reason: the rows of the table for the statuses    *)
(* the model uses; every other status of the model has no reason phrase.   *)
canonical_reason(status) ==
    CASE status = 100 -> Some(<<"C","o","n","t","i","n","u","e">>)
      [] status = 200 -> Some(<<"O","K">>)
      [] status = 404 -> Some(<<"N","o","t"," ","F","o","u","n","d">>)
      [] status = 500 -> Some(<<"I","n","t","e","r","n","a","l"," ",
                               "S","e","r","v","e","r"," ",
                               "E","r","r","o","r">>)
      [] OTHER -> None

---------------------------------------------------------------------------
(* ProblemType: a newtype over Uri *)

(* impl From<Uri> for ProblemType *)
ProblemType_from(uri) == uri

(* impl Default for ProblemType: Uri::from_static("about:blank") *)
ProblemType_default ==
    Uri_parse(<<"a","b","o","u","t",":","b","l","a","n","k">>).v

(* impl Display for ProblemType *)
ProblemType_fmt(t) == Uri_fmt(t)

(* Equality of the Display strings in the place of derive(PartialEq). *)
ProblemType_eq_by_string(a, b) == Uri_fmt(a) = Uri_fmt(b)

(* derive(PartialEq) for ProblemType *)
ProblemType_eq(a, b) == Uri_eq(a, b)

---------------------------------------------------------------------------
(* The inputs of the model *)

NumUriTexts == 4

NumStatusCodes == 2

NumTexts == 2

MaxDocEntries == 2

Min(a, b) == IF a < b THEN a ELSE b

Prefix(table, n) == {table[i] : i \in 1..Min(n, Len(table))}

(* Strings offered where a URI is expected, parsable or not. *)
UriTextTable ==
    << <<"t","e","s","t",":","t","y","p","e">>,
       <<"n","o","t"," ","a"," ","u","r","i">>,
       <<"x",":","/","/","H","/","p","?","q">>,
       <<"/","p","#","f">>,
       <<>>,
       <<"x",":","/","/","h">>,
       <<"a",":","b",":","c">> >>

UriTexts == Prefix(UriTextTable, NumUriTexts)

(* The Uri values a caller can hold: the parsable texts, parsed. *)
Uris == {Uri_parse(t).v : t \in {x \in UriTexts : Uri_parse(x).ok}}

StatusTable == <<404, 599, 500, 100, 999>>

StatusCodes == Prefix(StatusTable, NumStatusCodes)

TextTable == << <<"T">>, <<"D">>, <<"T","2">>, <<>> >>

Texts == Prefix(TextTable, NumTexts)

(* Extension payloads.  unit is (), the default; a struct is the test      *)
(* suite's Extensions { foo: String, bar: u32 }; scalar and seq are        *)
(* payloads that are not object-shaped.                                    *)
ExtUnit == [shape |-> "unit"]

ExtStruct(foo, bar) == [shape |-> "struct", foo |-> foo, bar |-> bar]

ExtScalar == [shape |-> "scalar", n |-> 42]

ExtSeq == [shape |-> "seq", items |-> <<1, 2>>]

ExtStructs == {ExtStruct(f, b) : f \in {<<"F","o","o">>}, b \in {42}}

(* A map payload (a BTreeMap<String, String>): its entries in key order. *)
ExtMap(entries) == [shape |-> "map", entries |-> entries]

Exts == {ExtUnit, ExtScalar, ExtSeq} \cup ExtStructs

---------------------------------------------------------------------------
(* ProblemDetails<Ext> *)

(* new with the default problem type filled in. *)
new_about_blank ==
    [type |-> Some(Uri_parse(<<"a","b","o","u","t",":","b","l","a","n","k">>).v),
     status |-> None, title |-> None, detail |-> None,
     instance |-> None, extensions |-> ExtUnit]

(* ProblemDetails::new *)
new ==
    [type |-> None, status |-> None, title |-> None, detail |-> None,
     instance |-> None, extensions |-> ExtUnit]

(* from_status_code without the reason phrase. *)
from_status_code_no_title(status) ==
    [type |-> None, status |-> Some(status), title |-> None, detail |-> None,
     instance |-> None, extensions |-> ExtUnit]

(* ProblemDetails::from_status_code *)
from_status_code(status) ==
    [type |-> None, status |-> Some(status),
     title |-> canonical_reason(status), detail |-> None,
     instance |-> None, extensions |-> ExtUnit]

(* ProblemDetails::with_type *)
with_type(self, type) == [self EXCEPT !.type = Some(ProblemType_from(type))]

(* with_status that drops the title the receiver had. *)
with_status_untitle(self, status) ==
    [self EXCEPT !.status = Some(status), !.title = None]

(* with_status that also resets the title to the new reason phrase. *)
with_status_retitle(self, status) ==
    [self EXCEPT !.status = Some(status), !.title = canonical_reason(status)]

(* ProblemDetails::with_status *)
with_status(self, status) == [self EXCEPT !.status = Some(status)]

(* with_title that starts the description over: the detail is dropped. *)
with_title_drop_detail(self, title) ==
    [self EXCEPT !.title = Some(title), !.detail = None]

(* ProblemDetails::with_title *)
with_title(self, title) == [self EXCEPT !.title = Some(title)]

(* with_detail that keeps a detail the receiver already has. *)
with_detail_keep_first(self, detail) ==
    IF self.detail.some THEN self ELSE [self EXCEPT !.detail = Some(detail)]

(* ProblemDetails::with_detail *)
with_detail(self, detail) == [self EXCEPT !.detail = Some(detail)]

(* ProblemDetails::with_instance *)
with_instance(self, instance) == [self EXCEPT !.instance = Some(instance)]

(* with_extensions that forgets to carry the instance over. *)
with_extensions_drop_instance(self, extensions) ==
    [type |-> self.type, status |-> self.status, title |-> self.title,
     detail |-> self.detail, instance |-> None, extensions |-> extensions]

(* ProblemDetails::with_extensions *)
with_extensions(self, extensions) ==
    [type |-> self.type, status |-> self.status, title |-> self.title,
     detail |-> self.detail, instance |-> self.instance,
     extensions |-> extensions]

(* Option<T>: PartialEq, with eq(_, _) the equality of T *)
Option_eq(a, b, eq(_, _)) ==
    /\ a.some = b.some
    /\ a.some => eq(a.v, b.v)

Plain_eq(a, b) == a = b

(* derive(PartialEq) for ProblemDetails *)
ProblemDetails_eq(a, b) ==
    /\ Option_eq(a.type, b.type, ProblemType_eq)
    /\ Option_eq(a.status, b.status, Plain_eq)
    /\ Option_eq(a.title, b.title, Plain_eq)
    /\ Option_eq(a.detail, b.detail, Plain_eq)
    /\ Option_eq(a.instance, b.instance, Uri_eq)
    /\ a.extensions = b.extensions

(* fmt without the colon between title and detail. *)
fmt_no_colon(self) ==
    LET type  == IF self.type.some THEN self.type.v ELSE ProblemType_default
        title == IF self.title.some THEN self.title
                 ELSE IF self.status.some THEN canonical_reason(self.status.v)
                 ELSE None
     IN <<"[">> \o ProblemType_fmt(type)
        \o (IF self.status.some
            THEN <<" ">> \o fmt_u16(self.status.v) \o <<"]">>
            ELSE <<"]">>)
        \o (IF title.some THEN <<" ">> \o title.v ELSE <<>>)
        \o (IF self.detail.some THEN <<" ">> \o self.detail.v ELSE <<>>)

(* Display that also writes the instance, after the detail. *)
fmt_with_instance(self) ==
    LET type  == IF self.type.some THEN self.type.v ELSE ProblemType_default
        title == IF self.title.some THEN self.title
                 ELSE IF self.status.some THEN canonical_reason(self.status.v)
                 ELSE None
     IN <<"[">> \o ProblemType_fmt(type)
        \o (IF self.status.some
            THEN <<" ">> \o fmt_u16(self.status.v) \o <<"]">>
            ELSE <<"]">>)
        \o (IF title.some THEN <<" ">> \o title.v ELSE <<>>)
        \o (IF self.detail.some
            THEN (IF title.some THEN <<":">> ELSE <<>>)
                 \o <<" ">> \o self.detail.v
            ELSE <<>>)
        \o (IF self.instance.some
            THEN <<" ">> \o Uri_fmt(self.instance.v) ELSE <<>>)

(* impl Display for ProblemDetails *)
fmt(self) ==
    LET type  == IF self.type.some THEN self.type.v ELSE ProblemType_default
        title == IF self.title.some THEN self.title
                 ELSE IF self.status.some THEN canonical_reason(self.status.v)
                 ELSE None
     IN <<"[">> \o ProblemType_fmt(type)
        \o (IF self.status.some
            THEN <<" ">> \o fmt_u16(self.status.v) \o <<"]">>
            ELSE <<"]">>)
        \o (IF title.some THEN <<" ">> \o title.v ELSE <<>>)
        \o (IF self.detail.some
            THEN (IF title.some THEN <<":">> ELSE <<>>)
                 \o <<" ">> \o self.detail.v
            ELSE <<>>)

(* impl Display for JsonProblemDetails: the wrapped value's *)
JsonProblemDetails_fmt(self) == fmt(self)

(* impl Display for XmlProblemDetails: the wrapped value's *)
XmlProblemDetails_fmt(self) == fmt(self)

---------------------------------------------------------------------------
(* JSON as serde_json reads and writes it.  An object is the sequence of   *)
(* its entries [key, value], in document order.                            *)

JNull == [t |-> "null"]

JNum(n) == [t |-> "num", n |-> n]

JFloat(n) == [t |-> "float", n |-> n]

JStr(s) == [t |-> "str", s |-> s]

JBool(b) == [t |-> "bool", b |-> b]

JObj(entries) == [t |-> "object", entries |-> entries]

Entry(k, v) == [key |-> k, value |-> v]

Keys(entries) == {entries[i].key : i \in DOMAIN entries}

Reserved == {"type", "status", "title", "detail", "instance"}

(* serde::de::Error::invalid_value / invalid_type / custom *)
invalid_value(unexp, expecting) ==
    [kind |-> "invalid_value", unexpected |-> Some(unexp), msg |-> expecting]

invalid_type(unexp, expecting) ==
    [kind |-> "invalid_type", unexpected |-> Some(unexp), msg |-> expecting]

custom(msg) == [kind |-> "custom", unexpected |-> None, msg |-> msg]

(* serde::de::Error::duplicate_field / missing_field: the two failures     *)
(* whose text holds the name of a field                                    *)
duplicate_field(field) ==
    [kind |-> "duplicate_field", unexpected |-> None, msg |-> field]

missing_field(field) ==
    [kind |-> "missing_field", unexpected |-> None, msg |-> field]

---------------------------------------------------------------------------
(* crate::serde::uri *)

(* UriVisitor::expecting *)
UriVisitor_expecting == "valid uri"

(* UriVisitor::visit_str *)
UriVisitor_visit_str(val) ==
    Let(Uri_parse(val), LAMBDA uri :
        IF uri.ok THEN Ok(Some(uri.v))
        ELSE Err(invalid_value(JStr(val), UriVisitor_expecting)))

(* UriVisitor::visit_string: the error is the Display of http's InvalidUri *)
UriVisitor_visit_string(val) ==
    Let(Uri_parse(val), LAMBDA uri :
        IF uri.ok THEN Ok(Some(uri.v))
        ELSE Err(custom(uri.err)))

(* UriVisitor::visit_none *)
UriVisitor_visit_none == Ok(None)

(* uri::opt::deserialize: deserializer.deserialize_str(UriVisitor).        *)
(* uri::opt::deserialize through deserialize_option: null is visit_none. *)
uri_opt_deserialize_option(v, path) ==
    IF v.t = "str"
    THEN IF path = "borrowed" THEN UriVisitor_visit_str(v.s)
         ELSE UriVisitor_visit_string(v.s)
    ELSE IF v.t = "null" THEN UriVisitor_visit_none
    ELSE Err(invalid_type(v, UriVisitor_expecting))

(* serde_json hands a string to visit_str when it reads text ("borrowed")  *)
(* and to visit_string when it reads an owned Value ("owned"); any other   *)
(* JSON value, null included, is an invalid type for the visitor.          *)
uri_opt_deserialize(v, path) ==
    IF v.t = "str"
    THEN IF path = "borrowed" THEN UriVisitor_visit_str(v.s)
         ELSE UriVisitor_visit_string(v.s)
    ELSE Err(invalid_type(v, UriVisitor_expecting))

(* uri::deserialize: http_serde::uri::deserialize, whose visitor is the    *)
(* one above with the value not wrapped in an Option.                      *)
uri_deserialize(v, path) ==
    Try(uri_opt_deserialize(v, path), LAMBDA uri : Ok(uri.v))

(* uri::serialize: http_serde writes the Display form as a string *)
uri_serialize(value) == JStr(Uri_fmt(value))

(* uri::opt::serialize *)
uri_opt_serialize(value) ==
    IF value.some THEN uri_serialize(value.v) ELSE JNull

---------------------------------------------------------------------------
(* crate::serde::status *)

U16_MAX == 65535

(* StatusVisitor::expecting *)
StatusVisitor_expecting == "valid status code"

(* StatusVisitor::visit_u16 *)
StatusVisitor_visit_u16(val) ==
    Let(StatusCode_from_u16(val), LAMBDA status_code :
        IF status_code.ok THEN Ok(Some(status_code.v))
        ELSE Err(invalid_value(JNum(val), StatusVisitor_expecting)))

(* StatusVisitor::visit_i64 *)
StatusVisitor_visit_i64(val) ==
    IF val >= 0 /\ val <= U16_MAX THEN StatusVisitor_visit_u16(val)
    ELSE Err(invalid_value(JNum(val), StatusVisitor_expecting))

(* visit_u64 that narrows with a wrapping cast instead of try_into. *)
StatusVisitor_visit_u64_wrapping(val) ==
    StatusVisitor_visit_u16(val % (U16_MAX + 1))

(* StatusVisitor::visit_u64 *)
StatusVisitor_visit_u64(val) ==
    IF val <= U16_MAX THEN StatusVisitor_visit_u16(val)
    ELSE Err(invalid_value(JNum(val), StatusVisitor_expecting))

(* StatusVisitor::visit_none *)
StatusVisitor_visit_none == Ok(None)

(* status::opt::deserialize that takes whatever is no number as absent. *)
status_opt_deserialize_lenient(v) ==
    IF v.t = "num"
    THEN IF v.n >= 0 THEN StatusVisitor_visit_u64(v.n)
         ELSE StatusVisitor_visit_i64(v.n)
    ELSE StatusVisitor_visit_none

(* status::opt::deserialize: deserializer.deserialize_u16(StatusVisitor).  *)
(* serde_json hands a non-negative integer to visit_u64 and a negative one *)
(* to visit_i64; every other JSON value, null included, is an invalid type *)
(* for the visitor (its visit_f64, visit_str, visit_unit are the defaults).*)
status_opt_deserialize(v) ==
    IF v.t = "num"
    THEN IF v.n >= 0 THEN StatusVisitor_visit_u64(v.n)
         ELSE StatusVisitor_visit_i64(v.n)
    ELSE Err(invalid_type(v, StatusVisitor_expecting))

(* status::serialize: http_serde writes the u16 *)
status_serialize(value) == JNum(value)

(* status::opt::serialize *)
status_opt_serialize(value) ==
    IF value.some THEN status_serialize(value.v) ELSE JNull

---------------------------------------------------------------------------
(* derive(Serialize) for ProblemDetails, under serde_json *)

(* No skip_serializing_if attribute: every field is written. *)
skip_never(value) == FALSE

(* serde(skip_serializing_if = "Option::is_none") *)
skip_serializing_if(value) == ~value.some

(* Option<ProblemType>: Some writes the newtype's Uri through uri::serialize *)
type_serialize(value) ==
    IF value.some THEN uri_serialize(value.v) ELSE JNull

(* Option<String> *)
string_serialize(value) ==
    IF value.some THEN JStr(value.v) ELSE JNull

(* One field of the derived impl: skipped, or one entry of the map. *)
serialize_field(key, value, json) ==
    IF skip_serializing_if(value) THEN <<>> ELSE <<Entry(key, json)>>

(* No flatten attribute: the payload is one nested field. *)
flatten_nested(extensions) ==
    Ok(<<Entry("extensions", JObj(extensions))>>)

(* flatten that refuses a payload entry named like a reserved field. *)
flatten_reserved_checked(extensions) ==
    CASE extensions.shape = "unit" -> Ok(<<>>)
      [] extensions.shape = "struct" ->
            Ok(<<Entry("foo", JStr(extensions.foo)),
                 Entry("bar", JNum(extensions.bar))>>)
      [] extensions.shape = "map" ->
            IF \E i \in DOMAIN extensions.entries :
                  extensions.entries[i].key \in
                      {"type", "status", "title", "detail", "instance"}
            THEN Err("reserved field name")
            ELSE Ok([i \in DOMAIN extensions.entries |->
                        Entry(extensions.entries[i].key,
                              JStr(extensions.entries[i].value))])
      [] OTHER -> Err("can only flatten structs and maps")

(* flatten that takes a struct or a map and nothing else, not even (). *)
flatten_no_unit(extensions) ==
    CASE extensions.shape = "struct" ->
            Ok(<<Entry("foo", JStr(extensions.foo)),
                 Entry("bar", JNum(extensions.bar))>>)
      [] extensions.shape = "map" ->
            Ok([i \in DOMAIN extensions.entries |->
                    Entry(extensions.entries[i].key,
                          JStr(extensions.entries[i].value))])
      [] OTHER -> Err("can only flatten structs and maps")

(* serde(flatten) on extensions: the payload writes its own entries into   *)
(* the map of the record; a payload that is no struct or map cannot.       *)
flatten(extensions) ==
    CASE extensions.shape = "unit" -> Ok(<<>>)
      [] extensions.shape = "struct" ->
            Ok(<<Entry("foo", JStr(extensions.foo)),
                 Entry("bar", JNum(extensions.bar))>>)
      [] extensions.shape = "map" ->
            Ok([i \in DOMAIN extensions.entries |->
                    Entry(extensions.entries[i].key,
                          JStr(extensions.entries[i].value))])
      [] OTHER -> Err("can only flatten structs and maps")

ProblemDetails_serialize(self) ==
    Try(flatten(self.extensions), LAMBDA ext :
             Ok(serialize_field("type", self.type, type_serialize(self.type))
                \o serialize_field("status", self.status,
                                   status_opt_serialize(self.status))
                \o serialize_field("title", self.title,
                                   string_serialize(self.title))
                \o serialize_field("detail", self.detail,
                                   string_serialize(self.detail))
                \o serialize_field("instance", self.instance,
                                   uri_opt_serialize(self.instance))
                \o ext))

(* JsonProblemDetails::CONTENT_TYPE *)
JSON_CONTENT_TYPE == "application/problem+json"

(* to_body_string that answers a failed encoding with an empty object. *)
to_body_string_lossy(self) ==
    Let(ProblemDetails_serialize(self), LAMBDA r :
        IF r.ok THEN r ELSE Ok(<<>>))

(* JsonProblemDetails::to_body_string: the text of the object, or          *)
(* JsonError::Serialization                                                *)
to_body_string(self) ==
    Let(ProblemDetails_serialize(self), LAMBDA r :
        IF r.ok THEN r ELSE Err([kind |-> "Serialization", source |-> r.err]))

---------------------------------------------------------------------------
(* XmlProblemDetails: the derived Serialize under quick_xml's serializer,  *)
(* which writes the map of the record as one element: an open tag with the *)
(* attributes, then the children.  XML text is a sequence of characters.   *)

(* The characters of the keys the model writes (str::chars). *)
KeyTexts ==
    {<<"t","y","p","e">>,
     <<"s","t","a","t","u","s">>,
     <<"t","i","t","l","e">>,
     <<"d","e","t","a","i","l">>,
     <<"i","n","s","t","a","n","c","e">>,
     <<"f","o","o">>,
     <<"b","a","r">>,
     <<"e","x","t","e","n","s","i","o","n","s">>,
     <<"k">>,
     <<"a"," ","b">>,
     <<"1","x">>,
     <<"@","a">>,
     <<"$","t","e","x","t">>}

chars(key) == CHOOSE cs \in KeyTexts : Join(cs) = key

(* quick_xml::se::XmlName::try_from: the first character must start a      *)
(* name, and every character must be a name character                      *)
NameStartChars == Letters \cup {":", "_"}

NameChars == NameStartChars \cup Digits \cup {"-", "."}

XmlName_try_from(name) ==
    IF name # <<>> /\ name[1] \notin NameStartChars
    THEN Err([kind |-> "Unsupported", name |-> name])
    ELSE IF \E i \in DOMAIN name : name[i] \notin NameChars
    THEN Err([kind |-> "Unsupported", name |-> name])
    ELSE Ok(name)

(* quick_xml::escape at QuoteLevel::Partial, in text *)
RECURSIVE escape_text(_)
escape_text(s) ==
    IF s = <<>> THEN <<>>
    ELSE (CASE Head(s) = "<" -> <<"&","l","t",";">>
            [] Head(s) = ">" -> <<"&","g","t",";">>
            [] Head(s) = "&" -> <<"&","a","m","p",";">>
            [] OTHER -> <<Head(s)>>)
         \o escape_text(Tail(s))

(* quick_xml::escape at QuoteLevel::Partial, in a double-quoted attribute *)
RECURSIVE escape_attr(_)
escape_attr(s) ==
    IF s = <<>> THEN <<>>
    ELSE (CASE Head(s) = "<" -> <<"&","l","t",";">>
            [] Head(s) = ">" -> <<"&","g","t",";">>
            [] Head(s) = "&" -> <<"&","a","m","p",";">>
            [] Head(s) = "\"" -> <<"&","q","u","o","t",";">>
            [] OTHER -> <<Head(s)>>)
         \o escape_attr(Tail(s))

(* The text of a value of the serde data model: a string or an integer. *)
value_text(v) == IF v.t = "str" THEN v.s ELSE fmt_u16(v.n)

(* ElementSerializer: a primitive is wrapped in its tag; an empty string   *)
(* is an empty element (expand_empty_elements is off)                      *)
write_wrapped(name, v) ==
    IF v.t = "str" /\ v.s = <<>>
    THEN <<"<">> \o name \o <<"/", ">">>
    ELSE <<"<">> \o name \o <<">">> \o escape_text(value_text(v))
         \o <<"<", "/">> \o name \o <<">">>

(* Struct::write_attribute *)
write_attribute(name, v) ==
    <<" ">> \o name \o <<"=", "\"">> \o escape_attr(value_text(v)) \o <<"\"">>

(* Struct::write_field: a key that begins with '@' is an attribute of the  *)
(* element, the keys $text and $value are its text, every other key is a   *)
(* child element whose name must be an XML name.  st is [attrs, children]. *)
write_field(st, key, v) ==
    IF key # <<>> /\ key[1] = "@"
    THEN Try(XmlName_try_from(Tail(key)), LAMBDA name :
             Ok([st EXCEPT !.attrs = @ \o write_attribute(name, v)]))
    ELSE IF key = <<"$","t","e","x","t">> \/ key = <<"$","v","a","l","u","e">>
    THEN Ok([st EXCEPT !.children = @ \o escape_text(value_text(v))])
    ELSE Try(XmlName_try_from(key), LAMBDA name :
             Ok([st EXCEPT !.children = @ \o write_wrapped(name, v)]))

(* SerializeMap::serialize_entry for each entry the derived impl writes *)
RECURSIVE write_fields(_, _, _)
write_fields(st, entries, i) ==
    IF i > Len(entries) THEN Ok(st)
    ELSE Try(write_field(st, chars(entries[i].key), entries[i].value),
             LAMBDA st2 : write_fields(st2, entries, i + 1))

(* Struct::end: the element is closed at once when it has no children *)
Struct_end(root, st) ==
    IF st.children = <<>>
    THEN <<"<">> \o root \o st.attrs \o <<"/", ">">>
    ELSE <<"<">> \o root \o st.attrs \o <<">">> \o st.children
         \o <<"<", "/">> \o root \o <<">">>

(* quick_xml::se::to_string_with_root(root, &ProblemDetails) *)
to_string_with_root(root, self) ==
    Try(XmlName_try_from(root), LAMBDA name :
    Let(ProblemDetails_serialize(self), LAMBDA r :
        IF ~r.ok THEN Err([kind |-> "Custom", msg |-> r.err])
        ELSE Try(write_fields([attrs |-> <<>>, children |-> <<>>], r.v, 1),
                 LAMBDA st : Ok(Struct_end(name, st)))))

(* XmlProblemDetails::CONTENT_TYPE, said to be the JSON one. *)
XML_CONTENT_TYPE_json == "application/problem+json"

(* XmlProblemDetails::CONTENT_TYPE *)
XML_CONTENT_TYPE == "application/problem+xml"

(* The declaration the body starts with. *)
XML_DECLARATION ==
    <<"<","?","x","m","l"," ","v","e","r","s","i","o","n","=","\"","1",".","0","\""," ",
      "e","n","c","o","d","i","n","g","=","\"","U","T","F","-","8","\"","?",">">>

(* xml_to_body_string with a line break after the declaration. *)
xml_to_body_string_newline(self) ==
    Let(to_string_with_root(<<"p","r","o","b","l","e","m">>, self),
        LAMBDA xml :
            IF ~xml.ok THEN Err([kind |-> "Serialization", source |-> xml.err])
            ELSE Ok(XML_DECLARATION \o <<"\n">> \o xml.v))

(* XmlProblemDetails::to_body_string *)
xml_to_body_string(self) ==
    Let(to_string_with_root(<<"p","r","o","b","l","e","m">>, self),
        LAMBDA xml :
            IF ~xml.ok THEN Err([kind |-> "Serialization", source |-> xml.err])
            ELSE Ok(XML_DECLARATION \o xml.v))

---------------------------------------------------------------------------
(* The framework integrations: a value turned into an HTTP response.  A    *)
(* response is [status, content_type, body]; a body is the bytes           *)
(* serde_json wrote (the object's entries), a string the integration      *)
(* built, the Display text of an error, or empty.                          *)

(* http::StatusCode::INTERNAL_SERVER_ERROR *)
INTERNAL_SERVER_ERROR == 500

(* unwrap_or that gives the default whatever the option holds. *)
unwrap_or_default_only(opt, default) == default

(* Option::unwrap_or *)
unwrap_or(opt, default) == IF opt.some THEN opt.v ELSE default

Response(status, content_type, body) ==
    [status |-> status, content_type |-> content_type, body |-> body]

JsonBody(entries) == [kind |-> "json", v |-> entries]

StringBody(text) == [kind |-> "string", v |-> text]

ErrorBody(err) == [kind |-> "error", v |-> err]

EmptyBody == [kind |-> "empty"]

(* IntoResponse for StatusCode (poem, axum): the status alone *)
StatusCode_into_response(status) == Response(status, None, EmptyBody)

(* poem::web::Json<T>::into_response: the JSON bytes, or a 500 whose body  *)
(* is the text of the serde_json error                                     *)
poem_Json_into_response(value) ==
    Let(ProblemDetails_serialize(value), LAMBDA data :
        IF data.ok
        THEN Response(200, Some("application/json; charset=utf-8"),
                      JsonBody(data.v))
        ELSE Response(INTERNAL_SERVER_ERROR, None, ErrorBody(data.err)))

(* IntoResponse for String (poem, axum) *)
String_into_response(text) ==
    Response(200, Some("text/plain; charset=utf-8"), StringBody(text))

(* WithContentType::into_response (poem), a header array as response part  *)
(* (axum): the inner response with its content type replaced               *)
with_content_type(resp, content_type) ==
    [resp EXCEPT !.content_type = Some(content_type)]

(* IntoResponse for (StatusCode, T) (poem, axum): the inner response with  *)
(* its status replaced                                                     *)
with_status_code(status_code, resp) == [resp EXCEPT !.status = status_code]

(* ResponseError::status for ProblemDetails, JsonProblemDetails and        *)
(* XmlProblemDetails (poem)                                                *)
Poem_ResponseError_status(self) ==
    unwrap_or(self.status, INTERNAL_SERVER_ERROR)

(* IntoResponse for JsonProblemDetails (poem) *)
Poem_JsonProblemDetails_into_response(self) ==
    with_status_code(unwrap_or(self.status, INTERNAL_SERVER_ERROR),
                     with_content_type(poem_Json_into_response(self),
                                       JSON_CONTENT_TYPE))

(* IntoResponse for XmlProblemDetails (poem) *)
Poem_XmlProblemDetails_into_response(self) ==
    Let(xml_to_body_string(self), LAMBDA content :
        IF ~content.ok THEN StatusCode_into_response(INTERNAL_SERVER_ERROR)
        ELSE with_status_code(unwrap_or(self.status, INTERNAL_SERVER_ERROR),
                              with_content_type(String_into_response(content.v),
                                                XML_CONTENT_TYPE)))

(* IntoResponse for ProblemDetails (poem) *)
Poem_ProblemDetails_into_response(self) ==
    Poem_JsonProblemDetails_into_response(self)

(* HttpResponseBuilder::json (actix): the JSON bytes under the content     *)
(* type already set, or the response of JsonPayloadError::Serialize: a 500 *)
(* whose body is the text of the error                                     *)
actix_json(status, content_type, value) ==
    Let(ProblemDetails_serialize(value), LAMBDA body :
        IF body.ok THEN Response(status, Some(content_type), JsonBody(body.v))
        ELSE Response(INTERNAL_SERVER_ERROR,
                      Some("text/plain; charset=utf-8"), ErrorBody(body.err)))

(* actix_web::http::StatusCode::from_u16(status_code).unwrap() *)
actix_StatusCode(status_code) ==
    Let(StatusCode_from_u16(status_code), LAMBDA r :
        IF r.ok THEN r.v ELSE [panic |-> "unwrap"])

(* From<JsonProblemDetails> for HttpResponse (actix) *)
Actix_from_JsonProblemDetails(value) ==
    actix_json(actix_StatusCode(unwrap_or(value.status, INTERNAL_SERVER_ERROR)),
               JSON_CONTENT_TYPE, value)

(* From<XmlProblemDetails> for HttpResponse (actix) *)
Actix_from_XmlProblemDetails(value) ==
    Let(xml_to_body_string(value), LAMBDA content :
        IF ~content.ok THEN StatusCode_into_response(INTERNAL_SERVER_ERROR)
        ELSE Response(actix_StatusCode(unwrap_or(value.status,
                                                 INTERNAL_SERVER_ERROR)),
                      Some(XML_CONTENT_TYPE), StringBody(content.v)))

(* From<ProblemDetails> for HttpResponse (actix) *)
Actix_from_ProblemDetails(value) == Actix_from_JsonProblemDetails(value)

(* axum::Json<T>::into_response: the JSON bytes, or a 500 whose body is    *)
(* the text of the serde_json error                                        *)
axum_Json_into_response(value) ==
    Let(ProblemDetails_serialize(value), LAMBDA buf :
        IF buf.ok
        THEN Response(200, Some("application/json"), JsonBody(buf.v))
        ELSE Response(INTERNAL_SERVER_ERROR,
                      Some("text/plain; charset=utf-8"), ErrorBody(buf.err)))

(* IntoResponse for axum::JsonProblemDetails *)
Axum_JsonProblemDetails_into_response(self) ==
    with_status_code(unwrap_or(self.status, INTERNAL_SERVER_ERROR),
                     with_content_type(axum_Json_into_response(self),
                                       "application/problem+json"))

(* IntoResponse for axum::XmlProblemDetails *)
Axum_XmlProblemDetails_into_response(self) ==
    Let(to_string_with_root(<<"p","r","o","b","l","e","m">>, self),
        LAMBDA xml :
            IF ~xml.ok THEN StatusCode_into_response(INTERNAL_SERVER_ERROR)
            ELSE with_status_code(
                     unwrap_or(self.status, INTERNAL_SERVER_ERROR),
                     with_content_type(
                         String_into_response(XML_DECLARATION \o xml.v),
                         "application/problem+xml")))

(* IntoResponse for ProblemDetails (axum) *)
Axum_ProblemDetails_into_response(self) ==
    Axum_JsonProblemDetails_into_response(self)

(* The three response types of each integration. *)
Wrappers == {"plain", "json", "xml"}

Poem_into_response(wrapper, self) ==
    CASE wrapper = "plain" -> Poem_ProblemDetails_into_response(self)
      [] wrapper = "json" -> Poem_JsonProblemDetails_into_response(self)
      [] wrapper = "xml" -> Poem_XmlProblemDetails_into_response(self)

Actix_from(wrapper, value) ==
    CASE wrapper = "plain" -> Actix_from_ProblemDetails(value)
      [] wrapper = "json" -> Actix_from_JsonProblemDetails(value)
      [] wrapper = "xml" -> Actix_from_XmlProblemDetails(value)

Axum_into_response(wrapper, self) ==
    CASE wrapper = "plain" -> Axum_ProblemDetails_into_response(self)
      [] wrapper = "json" -> Axum_JsonProblemDetails_into_response(self)
      [] wrapper = "xml" -> Axum_XmlProblemDetails_into_response(self)

---------------------------------------------------------------------------
(* derive(Deserialize) for ProblemDetails, under serde_json *)

(* The entry of the document at which a decode failed (0: no entry). *)
At(err, i) ==
    [kind |-> err.kind, unexpected |-> err.unexpected, msg |-> err.msg,
     pos |-> i]

(* Option<String> *)
string_deserialize(v) ==
    IF v.t = "null" THEN Ok(None)
    ELSE IF v.t = "str" THEN Ok(Some(v.s))
    ELSE Err(invalid_type(v, "a string"))

(* Option<ProblemType>: null is None, anything else goes to the newtype,   *)
(* which reads its Uri through uri::deserialize                            *)
type_deserialize(v, path) ==
    IF v.t = "null" THEN Ok(None)
    ELSE Try(uri_deserialize(v, path),
             LAMBDA uri : Ok(Some(ProblemType_from(uri))))

(* The decoder of each reserved field, as the struct's attributes name it. *)
field_deserialize(key, v, path) ==
    CASE key = "type" -> type_deserialize(v, path)
      [] key = "status" -> status_opt_deserialize(v)
      [] key = "title" -> string_deserialize(v)
      [] key = "detail" -> string_deserialize(v)
      [] key = "instance" -> uri_opt_deserialize(v, path)

Unset == [set |-> FALSE]

(* The derived visit_map: a reserved key is decoded where it stands (a     *)
(* second one is a duplicate field), every other entry is kept for the     *)
(* flattened payload.                                                      *)
RECURSIVE visit_map(_, _, _, _, _)
visit_map(entries, i, fields, collect, path) ==
    IF i > Len(entries) THEN Ok([fields |-> fields, collect |-> collect])
    ELSE Let(entries[i], LAMBDA e :
             IF e.key \notin Reserved
             THEN visit_map(entries, i + 1, fields, Append(collect, e), path)
             ELSE IF fields[e.key].set
             THEN Err(At(duplicate_field(e.key), i))
             ELSE Let(field_deserialize(e.key, e.value, path), LAMBDA r :
                      IF ~r.ok THEN Err(At(r.err, i))
                      ELSE visit_map(entries, i + 1,
                               [fields EXCEPT ![e.key] = [set |-> TRUE, v |-> r.v]],
                               collect, path)))

(* The test suite's Extensions { foo: String, bar: u32 }, derived, reading *)
(* the kept entries: its own keys are taken, the others ignored.           *)
RECURSIVE Extensions_visit_map(_, _, _, _)
Extensions_visit_map(collect, i, foo, bar) ==
    IF i > Len(collect)
    THEN IF ~foo.some THEN Err(At(missing_field("foo"), 0))
         ELSE IF ~bar.some THEN Err(At(missing_field("bar"), 0))
         ELSE Ok(ExtStruct(foo.v, bar.v))
    ELSE Let(collect[i], LAMBDA e :
             CASE e.key = "foo" ->
                    IF foo.some THEN Err(At(duplicate_field("foo"), 0))
                    ELSE IF e.value.t # "str"
                    THEN Err(At(invalid_type(e.value, "a string"), 0))
                    ELSE Extensions_visit_map(collect, i + 1, Some(e.value.s), bar)
               [] e.key = "bar" ->
                    IF bar.some THEN Err(At(duplicate_field("bar"), 0))
                    ELSE IF e.value.t # "num" \/ e.value.n < 0
                    THEN Err(At(invalid_type(e.value, "u32"), 0))
                    ELSE Extensions_visit_map(collect, i + 1, foo, Some(e.value.n))
               [] OTHER -> Extensions_visit_map(collect, i + 1, foo, bar))

(* extensions_deserialize under serde(deny_unknown_fields): a kept entry   *)
(* the payload does not take is a failure.                                 *)
extensions_deserialize_deny_unknown(ext, collect) ==
    IF \E i \in DOMAIN collect :
          collect[i].key \notin (IF ext = "unit" THEN {} ELSE {"foo", "bar"})
    THEN Err(At(custom("unknown field"), 0))
    ELSE IF ext = "unit" THEN Ok(ExtUnit)
    ELSE Extensions_visit_map(collect, 1, None, None)

(* The flattened payload, read from the kept entries: () takes nothing. *)
extensions_deserialize(ext, collect) ==
    IF ext = "unit" THEN Ok(ExtUnit)
    ELSE Extensions_visit_map(collect, 1, None, None)

(* serde(default): a field no entry set is None *)
field_or_default(f) == IF f.set THEN f.v ELSE None

(* ProblemDetails::<Ext>::deserialize on a JSON object *)
ProblemDetails_deserialize(entries, ext, path) ==
    Try(visit_map(entries, 1, [k \in Reserved |-> Unset], <<>>, path),
        LAMBDA m :
    Try(extensions_deserialize(ext, m.collect), LAMBDA extensions :
        Ok([type       |-> field_or_default(m.fields["type"]),
            status     |-> field_or_default(m.fields["status"]),
            title      |-> field_or_default(m.fields["title"]),
            detail     |-> field_or_default(m.fields["detail"]),
            instance   |-> field_or_default(m.fields["instance"]),
            extensions |-> extensions])))

---------------------------------------------------------------------------
(* The state: the value the caller holds (pd), the receiver of the         *)
(* operation that produced it (prev), that operation and its arguments     *)
(* (last), and what the operation returned beside the value (out).         *)

VARIABLES pd, prev, last, out

vars == <<pd, prev, last, out>>

(* No value: before a constructor ran, or after a decode failed. *)
NoValue == [novalue |-> TRUE]

NoOut == [none |-> TRUE]

Init ==
    /\ pd = new
    /\ prev = NoValue
    /\ last = [op |-> "new"]
    /\ out = NoOut

New ==
    /\ pd' = new
    /\ prev' = NoValue
    /\ last' = [op |-> "new"]
    /\ out' = NoOut

FromStatusCode ==
    \E status \in StatusCodes :
        /\ pd' = from_status_code(status)
        /\ prev' = NoValue
        /\ last' = [op |-> "from_status_code", arg |-> status]
        /\ out' = NoOut

WithType ==
    /\ pd # NoValue
    /\ \E type \in Uris :
        /\ pd' = with_type(pd, type)
        /\ last' = [op |-> "with_type", arg |-> type]
    /\ prev' = pd
    /\ out' = NoOut

WithStatus ==
    /\ pd # NoValue
    /\ \E status \in StatusCodes :
        /\ pd' = with_status(pd, status)
        /\ last' = [op |-> "with_status", arg |-> status]
    /\ prev' = pd
    /\ out' = NoOut

WithTitle ==
    /\ pd # NoValue
    /\ \E title \in Texts :
        /\ pd' = with_title(pd, title)
        /\ last' = [op |-> "with_title", arg |-> title]
    /\ prev' = pd
    /\ out' = NoOut

WithDetail ==
    /\ pd # NoValue
    /\ \E detail \in Texts :
        /\ pd' = with_detail(pd, detail)
        /\ last' = [op |-> "with_detail", arg |-> detail]
    /\ prev' = pd
    /\ out' = NoOut

WithInstance ==
    /\ pd # NoValue
    /\ \E instance \in Uris :
        /\ pd' = with_instance(pd, instance)
        /\ last' = [op |-> "with_instance", arg |-> instance]
    /\ prev' = pd
    /\ out' = NoOut

WithExtensions ==
    /\ pd # NoValue
    /\ \E extensions \in Exts :
        /\ pd' = with_extensions(pd, extensions)
        /\ last' = [op |-> "with_extensions", arg |-> extensions]
    /\ prev' = pd
    /\ out' = NoOut

(* to_string *)
Display ==
    /\ pd # NoValue
    /\ \E wrapper \in {"plain", "json", "xml"} :
        /\ out' = CASE wrapper = "json" -> JsonProblemDetails_fmt(pd)
                     [] wrapper = "xml" -> XmlProblemDetails_fmt(pd)
                     [] OTHER -> fmt(pd)
        /\ last' = [op |-> "to_string", wrapper |-> wrapper]
    /\ prev' = pd
    /\ pd' = pd

(* JsonProblemDetails::from(pd).to_body_string() *)
ToBodyString ==
    /\ pd # NoValue
    /\ out' = to_body_string(pd)
    /\ last' = [op |-> "to_body_string"]
    /\ prev' = pd
    /\ pd' = pd

(* The type of the payload a caller decodes a value's own body into. *)
ExtTypeOf(extensions) ==
    IF extensions.shape = "struct" THEN "struct" ELSE "unit"

(* serde_json::from_str / from_value of the body just written, into the    *)
(* type of the value that wrote it                                         *)
FromBody ==
    /\ last.op = "to_body_string"
    /\ out.ok
    /\ \E path \in {"borrowed", "owned"} :
        /\ out' = ProblemDetails_deserialize(out.v, ExtTypeOf(pd.extensions), path)
        /\ pd' = IF out'.ok THEN out'.v ELSE NoValue
        /\ last' = [op |-> "from_body", path |-> path, doc |-> out.v]
    /\ prev' = pd

Next ==
    \/ New
    \/ FromStatusCode
    \/ WithType
    \/ WithStatus
    \/ WithTitle
    \/ WithDetail
    \/ WithInstance
    \/ WithExtensions
    \/ Display
    \/ ToBodyString
    \/ FromBody

Spec == Init /\ [][Next]_vars

---------------------------------------------------------------------------
(* Decoding documents that did not come from the encoder: Init draws the   *)
(* document, the payload type and the way serde_json hands strings over.   *)

StatusNums == {404, 700, 99, 1000, 65536, -1}

TypeValues == {JNull} \cup {JStr(t) : t \in UriTexts}

StatusValues == {JNull, JFloat(404), JStr(<<"4","0","4">>)}
                \cup {JNum(n) : n \in StatusNums}

TitleValues == {JNull, JNum(1), JStr(TextTable[1])}

DetailValues == {JNull, JStr(TextTable[2])}

InstanceValues == {JNull, JNum(1)} \cup {JStr(t) : t \in UriTexts}

DocEntries ==
    {Entry("type", v) : v \in TypeValues}
    \cup {Entry("status", v) : v \in StatusValues}
    \cup {Entry("title", v) : v \in TitleValues}
    \cup {Entry("detail", v) : v \in DetailValues}
    \cup {Entry("instance", v) : v \in InstanceValues}
    \cup {Entry("foo", JStr(<<"F","o","o">>)), Entry("bar", JNum(42)),
          Entry("unknown", JBool(TRUE))}

Docs == UNION {[1..n -> DocEntries] : n \in 0..MaxDocEntries}

InitDecode ==
    /\ pd = NoValue
    /\ prev = NoValue
    /\ \E doc \in Docs, ext \in {"unit", "struct"}, path \in {"borrowed", "owned"} :
        last = [op |-> "input", doc |-> doc, ext |-> ext, path |-> path]
    /\ out = NoOut

(* serde_json::from_str / from_value of the document *)
Deserialize ==
    /\ last.op = "input"
    /\ out' = ProblemDetails_deserialize(last.doc, last.ext, last.path)
    /\ pd' = IF out'.ok THEN out'.v ELSE NoValue
    /\ last' = [last EXCEPT !.op = "deserialize"]
    /\ prev' = prev

NextDecode == Deserialize

SpecDecode == InitDecode /\ [][NextDecode]_vars

---------------------------------------------------------------------------
(* Encoding to JSON and XML and answering a request: Init draws the value  *)
(* a handler returns, with payloads that are maps as well.                 *)

(* Map payloads: a key that is an XML name, keys that are none, a key that *)
(* begins with '@', the key $text, and keys that are reserved names.       *)
ExtMaps == {ExtMap(<<[key |-> k, value |-> <<"v">>]>>) :
                k \in {"k", "a b", "1x", "@a", "$text", "type", "status"}}
           \cup {ExtMap(<<[key |-> "@a", value |-> <<"v">>],
                          [key |-> "k", value |-> <<"v">>]>>)}

HttpExts == Exts \cup ExtMaps

HttpTexts == Texts \cup {<<"a","<","b">>, <<>>}

OptionOf(S) == {None} \cup {Some(x) : x \in S}

HttpValues ==
    {[type |-> type, status |-> status, title |-> title, detail |-> detail,
      instance |-> instance, extensions |-> extensions] :
        type \in OptionOf({Uri_parse(UriTextTable[1]).v}),
        status \in OptionOf(StatusCodes),
        title \in OptionOf(HttpTexts),
        detail \in OptionOf(Texts),
        instance \in OptionOf(Uris),
        extensions \in HttpExts}

InitHttp ==
    /\ pd \in HttpValues
    /\ prev = NoValue
    /\ last = [op |-> "value"]
    /\ out = NoOut

(* XmlProblemDetails::from(pd).to_body_string() *)
XmlToBodyString ==
    /\ last.op = "value"
    /\ out' = xml_to_body_string(pd)
    /\ last' = [op |-> "xml_to_body_string"]
    /\ prev' = pd
    /\ pd' = pd

(* ResponseError::status (poem) *)
PoemStatus ==
    /\ last.op = "value"
    /\ out' = Poem_ResponseError_status(pd)
    /\ last' = [op |-> "status"]
    /\ prev' = pd
    /\ pd' = pd

(* into_response / as_response (poem) *)
PoemIntoResponse ==
    /\ last.op = "value"
    /\ \E wrapper \in Wrappers :
        /\ out' = Poem_into_response(wrapper, pd)
        /\ last' = [op |-> "into_response", framework |-> "poem",
                    wrapper |-> wrapper]
    /\ prev' = pd
    /\ pd' = pd

(* HttpResponse::from / error_response (actix) *)
ActixFrom ==
    /\ last.op = "value"
    /\ \E wrapper \in Wrappers :
        /\ out' = Actix_from(wrapper, pd)
        /\ last' = [op |-> "into_response", framework |-> "actix",
                    wrapper |-> wrapper]
    /\ prev' = pd
    /\ pd' = pd

(* into_response (axum), whose types wrap a ProblemDetails<()> *)
AxumIntoResponse ==
    /\ last.op = "value"
    /\ pd.extensions = ExtUnit
    /\ \E wrapper \in Wrappers :
        /\ out' = Axum_into_response(wrapper, pd)
        /\ last' = [op |-> "into_response", framework |-> "axum",
                    wrapper |-> wrapper]
    /\ prev' = pd
    /\ pd' = pd

NextHttp ==
    \/ ToBodyString
    \/ XmlToBodyString
    \/ PoemStatus
    \/ PoemIntoResponse
    \/ ActixFrom
    \/ AxumIntoResponse

SpecHttp == InitHttp /\ [][NextHttp]_vars

---------------------------------------------------------------------------
(* Comparing problem types: Init draws two URIs, the one action compares   *)
(* the ProblemType values made of them and writes both out.                *)

EqUriTexts ==
    {<<"x",":","/","/","h","/","p">>,
     <<"x",":","/","/","H","/","p">>,
     <<"X",":","/","/","h","/","p">>,
     <<"x",":","/","/","h">>,
     <<"x",":","/","/","h","/">>,
     <<"x",":","/","/","h","/","P">>,
     <<"x",":","/","/","h","/","p","?","q">>,
     <<"x",":","/","/","h","/","p","?","Q">>,
     <<"/","p">>,
     <<"/","p","/">>,
     <<"t","e","s","t",":","t","y","p","e">>}

ProblemTypes == {ProblemType_from(Uri_parse(t).v) : t \in EqUriTexts}

InitEq ==
    /\ pd = NoValue
    /\ prev = NoValue
    /\ \E a \in ProblemTypes, b \in ProblemTypes :
          last = [op |-> "pair", a |-> a, b |-> b]
    /\ out = NoOut

(* a == b, a.to_string(), b.to_string() *)
Compare ==
    /\ last.op = "pair"
    /\ out' = [eq |-> ProblemType_eq(last.a, last.b),
               a |-> ProblemType_fmt(last.a),
               b |-> ProblemType_fmt(last.b)]
    /\ last' = [last EXCEPT !.op = "eq"]
    /\ pd' = pd
    /\ prev' = prev

NextEq == Compare

SpecEq == InitEq /\ [][NextEq]_vars

---------------------------------------------------------------------------
(* Properties *)

Fields == Reserved \cup {"extensions"}

AboutBlank == <<"a","b","o","u","t",":","b","l","a","n","k">>

TestType == Uri_parse(<<"t","e","s","t",":","t","y","p","e">>).v

(* C1: the Display output is "[" type_str (" " status)? "]", then          *)
(* " " title_resolved when there is one (the title, else the reason phrase *)
(* of the status), then the detail after ": " when a title segment was     *)
(* written and after " " otherwise, and nothing else; the golden strings   *)
(* of the test suite come out as written.                                  *)
C1_DisplayFormat ==
    last.op = "to_string" =>
        LET type_str == IF prev.type.some THEN Uri_fmt(prev.type.v)
                        ELSE AboutBlank
            title_resolved ==
                IF prev.title.some THEN prev.title
                ELSE IF prev.status.some THEN canonical_reason(prev.status.v)
                ELSE None
            step1 == IF prev.status.some
                     THEN <<"[">> \o type_str \o <<" ">>
                          \o fmt_u16(prev.status.v) \o <<"]">>
                     ELSE <<"[">> \o type_str \o <<"]">>
            step3 == IF title_resolved.some
                     THEN <<" ">> \o title_resolved.v ELSE <<>>
            step4 == IF ~prev.detail.some THEN <<>>
                     ELSE IF title_resolved.some
                     THEN <<":", " ">> \o prev.detail.v
                     ELSE <<" ">> \o prev.detail.v
         IN /\ out = step1 \o step3 \o step4
            /\ prev = new => Join(out) = "[about:blank]"
            /\ prev = with_status(new, 404)
                    => Join(out) = "[about:blank 404] Not Found"
            /\ prev = with_detail(with_status(new, 404), <<"D">>)
                    => Join(out) = "[about:blank 404] Not Found: D"
            /\ prev = with_detail(new, <<"D">>)
                    => Join(out) = "[about:blank] D"
            /\ prev = with_detail(with_title(new, <<"T">>), <<"D">>)
                    => Join(out) = "[about:blank] T: D"

C1_Witness ==
    /\ last.op = "to_string"
    /\ prev.type.some /\ prev.status.some /\ prev.title.some /\ prev.detail.some
    /\ Join(out) = "[test:type 404] T: D"

(* C2: from_status_code(s) has status s, the reason phrase of s as title   *)
(* when there is one and no title otherwise, no type, detail or instance,  *)
(* and the unit payload.                                                   *)
C2_FromStatusCode ==
    last.op = "from_status_code" =>
        /\ pd.status = Some(last.arg)
        /\ pd.title = canonical_reason(last.arg)
        /\ last.arg = 404 => pd.title = Some(<<"N","o","t"," ","F","o","u","n","d">>)
        /\ last.arg = 599 => pd.title = None
        /\ pd.type = None /\ pd.detail = None /\ pd.instance = None
        /\ pd.extensions = ExtUnit

C2_Witness ==
    /\ last.op = "from_status_code"
    /\ pd.status = Some(404)
    /\ Join(pd.title.v) = "Not Found"

(* C3: each of with_type, with_status, with_title, with_detail and         *)
(* with_instance returns the receiver with the named field present and set *)
(* to the argument; the other reserved fields and the payload are those of *)
(* the receiver.                                                           *)
C3_BuilderFrame ==
    \A f \in Reserved :
        last.op = "with_" \o f =>
            /\ pd[f] = Some(last.arg)
            /\ \A g \in Fields \ {f} : pd[g] = prev[g]

C3_Witness ==
    /\ last.op = "with_status"
    /\ prev.status.some /\ prev.status # pd.status
    /\ prev.title.some /\ prev.type.some /\ prev.detail.some
    /\ prev.instance.some /\ prev.extensions.shape = "struct"

(* C4: with_extensions(new_ext) returns the receiver's five reserved       *)
(* fields with new_ext as the payload, and nothing of the old payload.     *)
C4_WithExtensions ==
    last.op = "with_extensions" =>
        /\ \A f \in Reserved : pd[f] = prev[f]
        /\ pd.extensions = last.arg

C4_Witness ==
    /\ last.op = "with_extensions"
    /\ prev.extensions.shape = "struct" /\ pd.extensions = ExtScalar
    /\ \A f \in Reserved : prev[f].some

C6_Flattened ==
    (last.op = "to_body_string" /\ prev.extensions.shape = "struct") =>
        /\ out.ok
        /\ Keys(out.v) = {k \in Reserved : prev[k].some} \cup {"foo", "bar"}
        /\ \A i \in DOMAIN out.v : out.v[i].value.t # "object"
        /\ \E i \in DOMAIN out.v :
              out.v[i] = Entry("foo", JStr(prev.extensions.foo))
        /\ \E i \in DOMAIN out.v :
              out.v[i] = Entry("bar", JNum(prev.extensions.bar))
        /\ Len(out.v) = Cardinality(Keys(out.v))

C6_Witness ==
    /\ last.op = "to_body_string"
    /\ out.ok
    /\ out.v = <<Entry("status", JNum(404)), Entry("title", JStr(<<"T">>)),
                 Entry("foo", JStr(<<"F","o","o">>)), Entry("bar", JNum(42))>>

(* C7: decoding the JSON encoding of a value gives a value equal to it,    *)
(* whichever reserved fields are present.                                  *)
C7_RoundTrip ==
    last.op = "from_body" => (out.ok /\ ProblemDetails_eq(pd, prev))

C7_Witness ==
    /\ last.op = "from_body"
    /\ out.ok
    /\ \A f \in Reserved : prev[f].some
    /\ prev.type.v.query.some
    /\ prev.extensions.shape = "struct"

---------------------------------------------------------------------------
(* Properties of decoding, under SpecDecode *)

(* The entry that decides a reserved key: its first one. *)
FirstOf(doc, k) ==
    {i \in DOMAIN doc : doc[i].key = k /\ \A j \in 1..(i - 1) : doc[j].key # k}

C9_InvalidUriNamesString ==
    (/\ last.op = "deserialize"
     /\ Len(last.doc) >= 1
     /\ last.doc[1].key \in {"type", "instance"}
     /\ last.doc[1].value.t = "str"
     /\ ~Uri_parse(last.doc[1].value.s).ok)
        => /\ ~out.ok
           /\ out.err.unexpected = Some(last.doc[1].value)

(* C10: a reserved key that is absent decodes to an absent field and is    *)
(* never the cause of a failure, and a value that is present never decodes *)
(* to absent: for status and instance whatever the value, for type, title  *)
(* and detail unless the value is null.                                    *)
C10_AbsentIsNotInvalid ==
    last.op = "deserialize" =>
        /\ \A k \in Reserved :
              (k \notin Keys(last.doc) /\ out.ok) => pd[k] = None
        /\ (last.ext = "unit" /\ ~out.ok) => out.err.pos \in DOMAIN last.doc
        /\ (last.ext = "unit" /\ Keys(last.doc) \cap Reserved = {}) => out.ok
        /\ \A k \in Reserved : \A i \in FirstOf(last.doc, k) :
              (out.ok /\ ~pd[k].some)
                  => (k \in {"type", "title", "detail"}
                      /\ last.doc[i].value.t = "null")

C10_Witness ==
    /\ last.op = "deserialize"
    /\ last.doc = <<Entry("title", JStr(<<"T">>)), Entry("type", JStr(<<"t","e","s","t",":","t","y","p","e">>))>>
    /\ out.ok
    /\ pd.status = None /\ pd.instance = None
    /\ pd.title.some /\ pd.type.some

(* C11: a failed decode leaves no value, and its failure names the field   *)
(* at fault and carries the reason: the kind of failure and the value that *)
(* set it off.                                                             *)
C11_FailureNamesFieldAndReason ==
    (last.op = "deserialize" /\ ~out.ok) =>
        /\ pd = NoValue
        /\ out.err.kind \in {"duplicate_field", "missing_field"}
        /\ out.err.msg \in Keys(last.doc) \cup {"foo", "bar"}
        /\ out.err.unexpected.some

(* C12: to_body_string of a value whose payload is a bare scalar or an     *)
(* array returns JsonError::Serialization and no body, whatever the        *)
(* reserved fields hold.                                                   *)
C12_NonObjectPayloadFails ==
    (last.op = "to_body_string" /\ prev.extensions.shape \in {"scalar", "seq"})
        => /\ ~out.ok
           /\ out.err.kind = "Serialization"
           /\ "v" \notin DOMAIN out

C12_Witness ==
    /\ last.op = "to_body_string"
    /\ prev.extensions = ExtSeq
    /\ \A f \in Reserved : prev[f].some
    /\ ~out.ok

(* C13: to_body_string of ProblemDetails::new() writes the object without  *)
(* entries, {}, and decoding {} gives a value equal to new(): no reserved  *)
(* field present, the unit payload.                                        *)
C13_EmptyObject ==
    /\ (last.op = "to_body_string" /\ prev = new) => out = Ok(<<>>)
    /\ (last.op = "from_body" /\ last.doc = <<>>)
          => /\ out.ok
             /\ ProblemDetails_eq(pd, new)
             /\ \A f \in Reserved : pd[f] = None
             /\ pd.extensions = ExtUnit

C13_Witness ==
    /\ last.op = "from_body"
    /\ last.doc = <<>>
    /\ prev = new
    /\ pd = new

---------------------------------------------------------------------------
(* Properties of the XML encoding and of the responses, under SpecHttp *)

RootOpen == <<"<","p","r","o","b","l","e","m">>

(* An element as the document is expected to hold it. *)
Element(name, text) ==
    IF text = <<>> THEN <<"<">> \o name \o <<"/", ">">>
    ELSE <<"<">> \o name \o <<">">> \o escape_text(text)
         \o <<"<", "/">> \o name \o <<">">>

(* One element for each entry, in the order of the entries. *)
RECURSIVE Elements(_)
Elements(entries) ==
    IF entries = <<>> THEN <<>>
    ELSE Element(chars(Head(entries).key), value_text(Head(entries).value))
         \o Elements(Tail(entries))

(* The keys of the payload's fields, as the JSON encoding names them. *)
PayloadKeys(self) ==
    IF flatten(self.extensions).ok
    THEN {chars(k) : k \in Keys(flatten(self.extensions).v)}
    ELSE {}

(* C14 as stated: the document is the declaration, at once followed by the *)
(* root element problem, and for new() it is the declaration followed by   *)
(* <problem></problem>.                                                    *)
C14_Original ==
    (last.op = "xml_to_body_string" /\ out.ok) =>
        /\ SubSeq(out.v, 1, Len(XML_DECLARATION) + Len(RootOpen))
              = XML_DECLARATION \o RootOpen
        /\ prev = new =>
              Join(out.v) =
                "<?xml version=\"1.0\" encoding=\"UTF-8\"?><problem></problem>"

(* C14 amended: the document is the declaration, at once followed by the   *)
(* open tag of the root element problem with no character in between, and  *)
(* for new(), as for every value that writes no child, it is the           *)
(* declaration followed by the empty-element tag <problem/>.               *)
C14_Declaration ==
    (last.op = "xml_to_body_string" /\ out.ok) =>
        LET n == Len(XML_DECLARATION) + Len(RootOpen)
         IN /\ Len(out.v) > n
            /\ SubSeq(out.v, 1, n) = XML_DECLARATION \o RootOpen
            /\ out.v[n + 1] \in {">", "/", " "}
            /\ Join(XML_DECLARATION) = "<?xml version=\"1.0\" encoding=\"UTF-8\"?>"
            /\ prev = new =>
                  Join(out.v) =
                    "<?xml version=\"1.0\" encoding=\"UTF-8\"?><problem/>"
            /\ ((\A f \in Reserved : ~prev[f].some) /\ PayloadKeys(prev) = {})
                  => out.v = XML_DECLARATION \o RootOpen \o <<"/", ">">>

C14_Witness ==
    /\ last.op = "xml_to_body_string"
    /\ prev = new
    /\ out.ok
    /\ Join(out.v) = "<?xml version=\"1.0\" encoding=\"UTF-8\"?><problem/>"

(* C15: the children of the root are the present reserved fields in the    *)
(* order type, status, title, detail, instance, then one sibling element   *)
(* for each field of the payload, named like its JSON key; nothing else is *)
(* written into the root.                                                  *)
C15_ChildOrder ==
    (last.op = "xml_to_body_string" /\ out.ok) =>
        LET reserved ==
                (IF prev.type.some
                 THEN Element(chars("type"), Uri_fmt(prev.type.v)) ELSE <<>>)
                \o (IF prev.status.some
                    THEN Element(chars("status"), fmt_u16(prev.status.v))
                    ELSE <<>>)
                \o (IF prev.title.some
                    THEN Element(chars("title"), prev.title.v) ELSE <<>>)
                \o (IF prev.detail.some
                    THEN Element(chars("detail"), prev.detail.v) ELSE <<>>)
                \o (IF prev.instance.some
                    THEN Element(chars("instance"), Uri_fmt(prev.instance.v))
                    ELSE <<>>)
            children == reserved \o Elements(flatten(prev.extensions).v)
         IN out.v = XML_DECLARATION \o
                    (IF children = <<>> THEN RootOpen \o <<"/", ">">>
                     ELSE RootOpen \o <<">">> \o children
                          \o <<"<", "/">> \o Tail(RootOpen) \o <<">">>)

(* C16: where a field of the payload has a key that is no XML element      *)
(* name, to_body_string returns XmlError::Serialization and no body.       *)
C16_InvalidNameFails ==
    (/\ last.op = "xml_to_body_string"
     /\ \E key \in PayloadKeys(prev) : ~XmlName_try_from(key).ok)
        => /\ ~out.ok
           /\ out.err.kind = "Serialization"

(* The encoding a response type runs, and whether it succeeds. *)
EncodingOk(wrapper, self) ==
    IF wrapper = "xml" THEN xml_to_body_string(self).ok
    ELSE to_body_string(self).ok

(* C17: where the encoding succeeds, the status of the response is the     *)
(* status of the value, and 500 when the value has none, for the plain,    *)
(* the JSON and the XML response type of poem, actix and axum; poem's      *)
(* status accessor gives the same.                                         *)
C17_TransportStatus ==
    /\ (last.op = "into_response" /\ EncodingOk(last.wrapper, prev))
          => /\ prev.status.some => out.status = prev.status.v
             /\ ~prev.status.some => out.status = 500
    /\ last.op = "status"
          => out = IF prev.status.some THEN prev.status.v ELSE 500

C17_Witness ==
    /\ last.op = "into_response"
    /\ last.framework = "actix"
    /\ last.wrapper = "xml"
    /\ prev.status = Some(404)
    /\ prev.extensions.shape = "struct"
    /\ out.status = 404
    /\ out.body.kind = "string"

(* C18: where the encoding fails, the response has status 500 whatever the *)
(* status of the value, and its body is no problem document: this for the  *)
(* JSON and for the XML response types of every integration.               *)
C18_FallbackOnFailure ==
    (last.op = "into_response" /\ ~EncodingOk(last.wrapper, prev))
        => /\ out.status = 500
           /\ out.body.kind \in {"empty", "error"}

(* C19: where the encoding succeeds, the JSON response type and the plain  *)
(* value answer with application/problem+json and the JSON encoding as     *)
(* body, the XML response type with application/problem+xml and the XML    *)
(* document as body.                                                       *)
C19_ContentType ==
    (last.op = "into_response" /\ EncodingOk(last.wrapper, prev)) =>
        IF last.wrapper = "xml"
        THEN /\ out.content_type = Some("application/problem+xml")
             /\ out.body = StringBody(xml_to_body_string(prev).v)
        ELSE /\ out.content_type = Some("application/problem+json")
             /\ out.body = JsonBody(to_body_string(prev).v)

C19_Witness ==
    /\ last.op = "into_response"
    /\ last.framework = "poem"
    /\ last.wrapper = "plain"
    /\ prev.title.some
    /\ out.content_type = Some("application/problem+json")
    /\ out.body.kind = "json"
    /\ Len(out.body.v) > 0

---------------------------------------------------------------------------
(* Properties of ProblemType's equality, under SpecEq *)

(* The scheme and the authority in lower case, the rest as it is. *)
Folded(u) ==
    [scheme |-> IF u.scheme.some
                THEN Some([i \in DOMAIN u.scheme.v |->
                              to_ascii_lowercase(u.scheme.v[i])])
                ELSE None,
     authority |-> [i \in DOMAIN u.authority |->
                       to_ascii_lowercase(u.authority[i])],
     path |-> Uri_path(u),
     query |-> u.query]

(* C20 as stated: two problem types are equal exactly when their string    *)
(* forms are the same.                                                     *)
C20_Original ==
    last.op = "eq" => (out.eq <=> out.a = out.b)

(* C20 amended: two problem types are equal exactly when scheme and        *)
(* authority are the same up to ASCII case and path and query are the      *)
(* same.  The same string form makes them equal; equal values have string  *)
(* forms that are the same up to case; a difference of case in the path or *)
(* the query, or a trailing slash after a path, makes them unequal.        *)
C20_UriEquality ==
    last.op = "eq" =>
        /\ out.eq <=> Folded(last.a) = Folded(last.b)
        /\ out.a = out.b => out.eq
        /\ out.eq => eq_ignore_ascii_case(out.a, out.b)
        /\ (Join(out.a) = "x://h/p" /\ Join(out.b) = "x://H/p") => out.eq
        /\ (Join(out.a) = "x://h/p" /\ Join(out.b) = "X://h/p") => out.eq
        /\ (Join(out.a) = "x://h/p" /\ Join(out.b) = "x://h/P") => ~out.eq
        /\ (Join(out.a) = "x://h/p?q" /\ Join(out.b) = "x://h/p?Q") => ~out.eq
        /\ (Join(out.a) = "/p" /\ Join(out.b) = "/p/") => ~out.eq

C20_Witness ==
    /\ last.op = "eq"
    /\ Join(out.a) = "x://h/p"
    /\ Join(out.b) = "x://H/p"
    /\ out.eq

---------------------------------------------------------------------------
(* Further properties of decoding, under SpecDecode *)

(* The keys the payload type takes for itself. *)
Claimed(ext) == IF ext = "struct" THEN {"foo", "bar"} ELSE {}

(* The document without the entries nobody claims. *)
WithoutUnclaimed(doc, ext) ==
    SelectSeq(doc, LAMBDA e : e.key \in Reserved \cup Claimed(ext))

(* C21: an entry whose key is neither reserved nor claimed by the payload  *)
(* type changes nothing: the decode succeeds exactly when the decode of    *)
(* the document without such entries does, and gives the same value; a     *)
(* document of such entries alone decodes, with the unit payload, to the   *)
(* value without fields.                                                   *)
C21_UnknownKeysIgnored ==
    last.op = "deserialize" =>
        LET bare == ProblemDetails_deserialize(
                        WithoutUnclaimed(last.doc, last.ext), last.ext, last.path)
         IN /\ out.ok <=> bare.ok
            /\ out.ok => pd = bare.v
            /\ (last.ext = "unit" /\ Keys(last.doc) \cap Reserved = {})
                  => (out.ok /\ pd = new)

C21_Witness ==
    /\ last.op = "deserialize"
    /\ last.ext = "unit"
    /\ last.doc = <<Entry("unknown", JBool(TRUE)), Entry("title", JStr(<<"T">>))>>
    /\ out.ok
    /\ pd = with_title(new, <<"T">>)

---------------------------------------------------------------------------
(* Further properties of encoding, under SpecHttp *)

ObjectShaped(extensions) == extensions.shape \in {"unit", "struct", "map"}

Empty ==
    [type |-> None, status |-> None, title |-> None, detail |-> None,
     instance |-> None, extensions |-> ExtUnit]

KeyCount(doc, k) == Cardinality({i \in DOMAIN doc : doc[i].key = k})

(* The payload's field names that are reserved names. *)
Colliding(extensions) ==
    IF extensions.shape = "map"
    THEN {extensions.entries[i].key : i \in DOMAIN extensions.entries}
             \cap Reserved
    ELSE {}

(* C23: a payload with a field named like a reserved field is accepted by  *)
(* with_extensions, which stores it as given, and the JSON encoder returns *)
(* a body for the value, the payload's entry written into it after the     *)
(* reserved fields.                                                        *)
C23_CollisionNotEnforced ==
    (last.op = "to_body_string" /\ Colliding(pd.extensions) # {}) =>
        /\ with_extensions([pd EXCEPT !.extensions = ExtUnit], pd.extensions) = pd
        /\ out.ok
        /\ \A k \in Colliding(pd.extensions) :
              /\ out.v[Len(out.v)] = Entry(k, JStr(<<"v">>))
              /\ KeyCount(out.v, k) = IF pd[k].some THEN 2 ELSE 1

C23_Witness ==
    /\ last.op = "to_body_string"
    /\ Colliding(pd.extensions) = {"status"}
    /\ pd.status = Some(404)
    /\ out.ok
    /\ KeyCount(out.v, "status") = 2

---------------------------------------------------------------------------
(* Further properties of the builders, under Spec *)

Bracket(status) ==
    <<"[">> \o ProblemType_fmt(ProblemType_default) \o <<" ">>
        \o fmt_u16(status) \o <<"]">>

Phrase(reason) == IF reason.some THEN <<" ">> \o reason.v ELSE <<>>

(* C24 as stated: from_status_code(s1).with_status(s2) with s1 # s2 has    *)
(* status s2 and the reason phrase of s1 as title, and displays as the     *)
(* number of s2 followed by the reason phrase of s1.                       *)
C24_Original ==
    \A s1 \in StatusCodes :
        (/\ last.op = "with_status"
         /\ prev = from_status_code(s1)
         /\ last.arg # s1) =>
            /\ pd.status = Some(last.arg)
            /\ pd.title = canonical_reason(s1)
            /\ fmt(pd) = Bracket(last.arg) \o Phrase(canonical_reason(s1))

(* C24, amended: with_status leaves the title as it was, so                *)
(* from_status_code(s1).with_status(s2) with s1 # s2 has status s2 and the *)
(* title of from_status_code(s1); it displays as the number of s2 followed *)
(* by the reason phrase of s1 when s1 has one, and by the reason phrase of *)
(* s2, if any, when s1 has none and the title is absent.                   *)
C24_StatusKeepsTitle ==
    /\ last.op = "with_status" => pd.title = prev.title
    /\ \A s1 \in StatusCodes :
        (/\ last.op = "with_status"
         /\ prev = from_status_code(s1)
         /\ last.arg # s1) =>
            /\ pd.status = Some(last.arg)
            /\ pd.title = canonical_reason(s1)
            /\ fmt(pd) = Bracket(last.arg)
                  \o (IF canonical_reason(s1).some
                      THEN Phrase(canonical_reason(s1))
                      ELSE Phrase(canonical_reason(last.arg)))

C24_Witness ==
    /\ last.op = "with_status"
    /\ prev = from_status_code(404)
    /\ last.arg = 599
    /\ pd.status = Some(599)
    /\ Join(fmt(pd)) = "[about:blank 599] Not Found"

Builders ==
    {"with_type", "with_status", "with_title", "with_detail",
     "with_instance", "with_extensions"}

(* C25: a step of with_type, with_status, with_title, with_detail,         *)
(* with_instance or with_extensions never takes a reserved field from      *)
(* present to absent, so a field present after one step of a chain is      *)
(* present after every later step; new and from_status_code are where the  *)
(* absent fields come from.                                                *)
C25_PresentStaysPresent ==
    [][last'.op \in Builders =>
          \A f \in Reserved : pd[f].some => pd'[f].some]_vars

C25_Witness ==
    /\ last.op = "with_extensions"
    /\ \A f \in Reserved : prev[f].some /\ pd[f].some
    /\ prev.extensions # pd.extensions

FieldBuilders == Builders \ {"with_extensions"}

Args(op) ==
    CASE op \in {"with_type", "with_instance"} -> Uris
      [] op = "with_status" -> StatusCodes
      [] OTHER -> Texts

Apply(op, self, arg) ==
    CASE op = "with_type" -> with_type(self, arg)
      [] op = "with_status" -> with_status(self, arg)
      [] op = "with_title" -> with_title(self, arg)
      [] op = "with_detail" -> with_detail(self, arg)
      [] op = "with_instance" -> with_instance(self, arg)

(* C26: after a step of with_type, with_status, with_title, with_detail or *)
(* with_instance, applying the same builder again gives what applying it   *)
(* to the receiver alone gives (the later value wins), and applying a      *)
(* builder of another field gives what the two steps give in the other     *)
(* order; so a chain of these builders yields the start value with each    *)
(* field the chain names set to the last value given for it.               *)
C26_LastValueWins ==
    last.op \in FieldBuilders =>
        \A g \in FieldBuilders : \A b \in Args(g) :
            IF g = last.op
            THEN Apply(g, pd, b) = Apply(g, prev, b)
            ELSE Apply(g, pd, b) = Apply(last.op, Apply(g, prev, b), last.arg)

C26_Witness ==
    /\ last.op = "with_detail"
    /\ prev.detail.some
    /\ prev.detail # pd.detail
    /\ pd.detail = Some(last.arg)
    /\ prev.title.some /\ prev.status.some

(* C27: the Display output is that of the value with its instance and      *)
(* payload replaced by any others, so values that agree on type, status,   *)
(* title and detail display alike; and a JsonProblemDetails or             *)
(* XmlProblemDetails displays as the value it wraps.                       *)
C27_DisplayOfFourFields ==
    last.op = "to_string" =>
        /\ \A instance \in {None} \cup {Some(u) : u \in Uris} :
           \A extensions \in Exts :
              out = fmt([pd EXCEPT !.instance = instance,
                                   !.extensions = extensions])
        /\ out = fmt(pd)

C27_Witness ==
    /\ last.op = "to_string"
    /\ last.wrapper = "xml"
    /\ pd.instance.some
    /\ pd.extensions.shape = "struct"
    /\ pd.type.some /\ pd.status.some /\ pd.title.some /\ pd.detail.some
    /\ out = fmt([pd EXCEPT !.instance = None, !.extensions = ExtUnit])

Without(doc, i) == SubSeq(doc, 1, i - 1) \o SubSeq(doc, i + 1, Len(doc))

(* C28: a null under status or instance makes the decode fail, as an       *)
(* invalid type where that entry is the first of the document; a null      *)
(* under type, title or detail, where the key stands once, decodes as the  *)
(* document without that entry does, the field absent.                     *)
C28_NullNotUniform ==
    last.op = "deserialize" =>
        \A i \in DOMAIN last.doc :
            last.doc[i].value = JNull =>
                /\ last.doc[i].key \in {"status", "instance"} =>
                      /\ ~out.ok
                      /\ pd = NoValue
                      /\ i = 1 => /\ out.err.kind = "invalid_type"
                                  /\ out.err.unexpected = Some(JNull)
                                  /\ out.err.pos = 1
                /\ (/\ last.doc[i].key \in {"type", "title", "detail"}
                    /\ KeyCount(last.doc, last.doc[i].key) = 1) =>
                      LET bare == ProblemDetails_deserialize(
                                      Without(last.doc, i), last.ext, last.path)
                       IN /\ out.ok <=> bare.ok
                          /\ out.ok => /\ pd = bare.v
                                       /\ pd[last.doc[i].key] = None
                          /\ (last.ext = "unit" /\ Len(last.doc) = 1) => out.ok

C28_Witness ==
    /\ last.op = "deserialize"
    /\ last.doc = <<Entry("detail", JNull), Entry("instance", JNull)>>
    /\ ~out.ok
    /\ out.err.kind = "invalid_type"
    /\ out.err.pos = 2

C28_NullAbsent ==
    /\ last.op = "deserialize"
    /\ last.doc = <<Entry("type", JNull), Entry("detail", JNull)>>
    /\ out.ok
    /\ pd.type = None /\ pd.detail = None

=============================================================================
